---------------------------- MODULE Spec2Model ----------------------------
(***************************************************************************)
(* A model of the two revisions of the video downloader GUI:               *)
(*   "enum"      src/video_downloader.py      (Operation enum, run_command) *)
(*   "dataclass" src/src/video_downloader.py  (Command dataclasses)         *)
(*                                                                         *)
(* Texts typed by the user are sequences of one-character strings, so that *)
(* the regular expressions of the code can be evaluated on them; Str turns *)
(* such a text into a string where the code interpolates it (f-strings).   *)
(* A handler is one step of the Tk main loop: the modal dialogs it opens   *)
(* (messagebox, askdirectory) return inside the step.  Worker threads and  *)
(* timers are separate steps.                                              *)
(***************************************************************************)
EXTENDS Integers, Sequences, FiniteSets, TLC

(***************************************************************************)
(* Texts                                                                   *)
(***************************************************************************)
Digits == {"0", "1", "2", "3", "4", "5", "6", "7", "8", "9"}

Whitespace == {" "}

RECURSIVE Str(_)
Str(s) == IF s = <<>> THEN "" ELSE Head(s) \o Str(Tail(s))

\* str.strip()
RECURSIVE LStrip(_)
LStrip(s) == IF s # <<>> /\ Head(s) \in Whitespace THEN LStrip(Tail(s)) ELSE s

RECURSIVE RStrip(_)
RStrip(s) ==
    IF s # <<>> /\ s[Len(s)] \in Whitespace
    THEN RStrip(SubSeq(s, 1, Len(s) - 1))
    ELSE s

Strip(s) == RStrip(LStrip(s))

AllDigits(s) == \A i \in 1..Len(s) : s[i] \in Digits

DigitVal(c) ==
    CASE c = "0" -> 0 [] c = "1" -> 1 [] c = "2" -> 2 [] c = "3" -> 3
      [] c = "4" -> 4 [] c = "5" -> 5 [] c = "6" -> 6 [] c = "7" -> 7
      [] c = "8" -> 8 [] c = "9" -> 9

\* int(text) of a string of decimal digits
RECURSIVE ToInt(_)
ToInt(s) ==
    IF s = <<>> THEN 0
    ELSE 10 * ToInt(SubSeq(s, 1, Len(s) - 1)) + DigitVal(s[Len(s)])

DigitChar(d) ==
    CASE d = 0 -> "0" [] d = 1 -> "1" [] d = 2 -> "2" [] d = 3 -> "3"
      [] d = 4 -> "4" [] d = 5 -> "5" [] d = 6 -> "6" [] d = 7 -> "7"
      [] d = 8 -> "8" [] d = 9 -> "9"

\* str(n) of a natural number
RECURSIVE IntToStr(_)
IntToStr(n) ==
    IF n < 10 THEN DigitChar(n)
    ELSE IntToStr(n \div 10) \o DigitChar(n % 10)

HasPrefix(s, p) == Len(s) >= Len(p) /\ SubSeq(s, 1, Len(p)) = p

\* the longest run of digits at the start of s
RECURSIVE DigitRun(_)
DigitRun(s) ==
    IF s # <<>> /\ Head(s) \in Digits
    THEN <<Head(s)>> \o DigitRun(Tail(s))
    ELSE <<>>

(***************************************************************************)
(* parse_time: the pattern ^(\d+)(?:[:.](\d{1,2}))?(?:[:.](\d{1,2}))?$ on   *)
(* the stripped text.  A match result is <<>> (no match) or <<groups>>,    *)
(* the three groups, a group that did not take part being <<>>.            *)
(***************************************************************************)
TimeSeparators == {":", "."}

\* (?:[:.](\d{1,2}))? at the start of s: <<group, rest>>
OptionalField(s) ==
    IF Len(s) >= 2 /\ s[1] \in TimeSeparators /\ s[2] \in Digits
    THEN IF Len(s) >= 3 /\ s[3] \in Digits
         THEN <<SubSeq(s, 2, 3), SubSeq(s, 4, Len(s))>>
         ELSE <<SubSeq(s, 2, 2), SubSeq(s, 3, Len(s))>>
    ELSE <<<<>>, s>>

MatchTime(s) ==
    LET g1 == DigitRun(s)
        f2 == OptionalField(SubSeq(s, Len(g1) + 1, Len(s)))
        f3 == OptionalField(f2[2])
    IN  IF g1 # <<>> /\ f3[2] = <<>>
        THEN <<<<g1, f2[1], f3[1]>>>>
        ELSE <<>>

\* A variant of total_seconds that reads two groups as minutes and seconds.
total_seconds_minutes_first(g) ==
    IF g[2] = <<>> /\ g[3] = <<>>
    THEN ToInt(g[1])
    ELSE IF g[3] = <<>>
    THEN ToInt(g[1]) * 60 + ToInt(g[2])
    ELSE ToInt(g[1]) * 3600 + ToInt(g[2]) * 60 + ToInt(g[3])

\* An int | None result is <<n>> or <<>>.  The groups that matched give
\* seconds alone, or hours with minutes and seconds.
total_seconds(g) ==
    IF g[2] = <<>> /\ g[3] = <<>>
    THEN ToInt(g[1])
    ELSE ToInt(g[1]) * 3600
         + (IF g[2] # <<>> THEN ToInt(g[2]) ELSE 0) * 60
         + (IF g[3] # <<>> THEN ToInt(g[3]) ELSE 0)

parse_time(time_str) ==
    LET match == MatchTime(Strip(time_str))
    IN  IF match = <<>> THEN <<>> ELSE <<total_seconds(match[1])>>

(***************************************************************************)
(* validate_url: ^https?://[^\s/$.?#].[^\s]*$ must match the whole         *)
(* stripped text; an empty text is rejected before the pattern is tried.   *)
(***************************************************************************)
HostStartExcluded == Whitespace \cup {"/", "$", ".", "?", "#"}

AfterScheme(s) ==
    IF HasPrefix(s, <<"h", "t", "t", "p", "s", ":", "/", "/">>)
    THEN <<SubSeq(s, 9, Len(s))>>
    ELSE IF HasPrefix(s, <<"h", "t", "t", "p", ":", "/", "/">>)
         THEN <<SubSeq(s, 8, Len(s))>>
         ELSE <<>>

validate_regex_url(value) ==
    LET rest == AfterScheme(Strip(value))
    IN  /\ rest # <<>>
        /\ Len(rest[1]) >= 2
        /\ rest[1][1] \notin HostStartExcluded
        /\ \A i \in 3..Len(rest[1]) : rest[1][i] \notin Whitespace

validate_url(url) == url # <<>> /\ validate_regex_url(url)

(***************************************************************************)
(* Paths.                                                                  *)
(***************************************************************************)
ExeDir == "C:\\app"

PathJoin(dir, name) == dir \o "\\" \o name

get_path(executable) == PathJoin(ExeDir, executable)

\* A variant of OutputTemplate that fixes the extension.
OutputTemplate_mp4(output_dir) == PathJoin(output_dir, "%(title)s.mp4")

OutputTemplate(output_dir) == PathJoin(output_dir, "%(title)s.%(ext)s")

(***************************************************************************)
(* The command builders.  A builder of the dataclass revision returns      *)
(* [exc |-> "", val |-> list] or, when it raises ValueError(m),            *)
(* [exc |-> m, val |-> <<>>].                                              *)
(***************************************************************************)
Returned(list) == [exc |-> "", val |-> list]

Raised(message) == [exc |-> message, val |-> <<>>]

\* A variant of build_download_sections that does not look at the times.
build_download_sections_unchecked(start, end) ==
    IF start = <<>> /\ end = <<>> THEN Returned(<<>>)
    ELSE Returned(<<"--download-sections", "*" \o Str(start) \o "-" \o Str(end),
                    "--force-keyframes-at-cuts">>)

\* A variant of build_download_sections that lets an end equal to the start pass.
build_download_sections_strictly_earlier(start, end) ==
    IF start = <<>> /\ end = <<>> THEN Returned(<<>>)
    ELSE
    LET start_seconds == IF start # <<>> THEN parse_time(start) ELSE <<>>
        end_seconds == IF end # <<>> THEN parse_time(end) ELSE <<>>
    IN  IF (start # <<>> /\ start_seconds = <<>>) \/ (end # <<>> /\ end_seconds = <<>>)
        THEN Raised("Invalid time format. Use seconds, HH:MM or HH:MM:SS")
        ELSE IF /\ start_seconds # <<>>
                /\ end_seconds # <<>>
                /\ end_seconds[1] < start_seconds[1]
        THEN Raised("End time cannot be earlier than start time")
        ELSE build_download_sections_unchecked(start, end)

build_download_sections(start, end) ==
    IF start = <<>> /\ end = <<>> THEN Returned(<<>>)
    ELSE
    LET start_seconds == IF start # <<>> THEN parse_time(start) ELSE <<>>
        end_seconds == IF end # <<>> THEN parse_time(end) ELSE <<>>
    IN  IF (start # <<>> /\ start_seconds = <<>>) \/ (end # <<>> /\ end_seconds = <<>>)
        THEN Raised("Invalid time format. Use seconds, HH:MM or HH:MM:SS")
        ELSE IF /\ start_seconds # <<>>
                /\ end_seconds # <<>>
                /\ end_seconds[1] <= start_seconds[1]
        THEN Raised("End time cannot be earlier than start time")
        ELSE Returned(
                <<"--download-sections">>
                \o (IF start # <<>> /\ end # <<>>
                    THEN <<"*" \o Str(start) \o "-" \o Str(end)>>
                    ELSE IF start # <<>>
                         THEN <<"*" \o Str(start) \o "-">>
                         ELSE <<"*-" \o Str(end)>>)
                \o <<"--force-keyframes-at-cuts">>)

\* self: the widgets' values [start, end, auth, resolution, crf] read by the builder
build_youtube_command(self, yt_dlp_path, ffmpeg_path, output_template, url) ==
    LET start == self.start
        end == self.end
        auth == self.auth
        resolution == self.resolution
        crf_value == self.crf
        output_format == "bestvideo[height=" \o resolution \o "]+bestaudio/best"
        cmd == << yt_dlp_path, "-f", output_format,
                  "--merge-output-format", "mp4",
                  "--ffmpeg-location", ffmpeg_path,
                  "-o", output_template, Str(url),
                  "--postprocessor-args", "-c:v libx264 -crf " \o crf_value,
                  "--force-overwrite" >>
        sections == build_download_sections(start, end)
    IN  IF sections.exc # "" THEN sections
        ELSE Returned(cmd \o sections.val
                      \o (IF auth THEN <<"--cookies-from-browser", "firefox">> ELSE <<>>))

VimeoPrefix ==
    <<"h", "t", "t", "p", "s", ":", "/", "/", "v", "i", "m", "e", "o", ".", "c", "o", "m", "/">>

\* re.match(r"^https://vimeo\.com/(\d+)", url): <<>> or <<group 1>>
MatchVimeo(url) ==
    IF HasPrefix(url, VimeoPrefix)
       /\ DigitRun(SubSeq(url, Len(VimeoPrefix) + 1, Len(url))) # <<>>
    THEN <<DigitRun(SubSeq(url, Len(VimeoPrefix) + 1, Len(url)))>>
    ELSE <<>>

build_vimeo_command(yt_dlp_path, url, output_template) ==
    LET match == MatchVimeo(url)
    IN  IF match = <<>> THEN Raised("Invalid Vimeo URL")
        ELSE Returned(<< yt_dlp_path,
                         "https://player.vimeo.com/video/" \o Str(match[1]),
                         "-o", output_template,
                         "--referer", "https://www.patreon.com",
                         "--force-overwrite" >>)

\* A variant of enum_youtube_command that cuts at the end time only.
enum_youtube_command_end_only(self, yt_dlp_path, ffmpeg_path, output_template, url) ==
    Returned(<< yt_dlp_path, "-f",
                "bestvideo[height=" \o self.resolution \o "]+bestaudio/best",
                "--merge-output-format", "mp4",
                "--ffmpeg-location", ffmpeg_path,
                "-o", output_template, Str(url),
                "--postprocessor-args", "-c:v libx264 -crf " \o self.crf,
                "--force-overwrite" >>
             \o build_download_sections_unchecked(<<>>, self.end).val
             \o (IF self.auth THEN <<"--cookies-from-browser", "firefox">> ELSE <<>>))

\* The enum revision builds the list inside download_video; a Vimeo URL
\* that does not match ends the handler with a dialog (exc).
enum_youtube_command(self, yt_dlp_path, ffmpeg_path, output_template, url) ==
    LET start == self.start
        end == self.end
        auth == self.auth
        resolution == self.resolution
        crf_value == self.crf
        format_string == "bestvideo[height=" \o resolution \o "]+bestaudio/best"
        command == << yt_dlp_path, "-f", format_string,
                      "--merge-output-format", "mp4",
                      "--ffmpeg-location", ffmpeg_path,
                      "-o", output_template, Str(url),
                      "--postprocessor-args", "-c:v libx264 -crf " \o crf_value,
                      "--force-overwrite" >>
        sections ==
            IF start # <<>> /\ end # <<>>
            THEN <<"--download-sections", "*" \o Str(start) \o "-" \o Str(end),
                   "--force-keyframes-at-cuts">>
            ELSE IF start # <<>>
            THEN <<"--download-sections", "*" \o Str(start) \o "-",
                   "--force-keyframes-at-cuts">>
            ELSE IF end # <<>>
            THEN <<"--download-sections", "*-" \o Str(end),
                   "--force-keyframes-at-cuts">>
            ELSE <<>>
    IN  Returned(command \o sections
                 \o (IF auth THEN <<"--cookies-from-browser", "firefox">> ELSE <<>>))

\* A variant of enum_vimeo_command that passes the page's URL on.
enum_vimeo_command_page_url(yt_dlp_path, url, output_template) ==
    IF MatchVimeo(url) = <<>> THEN Raised("Invalid Vimeo URL")
    ELSE Returned(<< yt_dlp_path, Str(url), "-o", output_template,
                     "--referer", "https://www.patreon.com", "--force-overwrite" >>)

enum_vimeo_command(yt_dlp_path, url, output_template) ==
    LET match == MatchVimeo(url)
    IN  IF match = <<>> THEN Raised("Invalid Vimeo URL")
        ELSE Returned(<< yt_dlp_path,
                         "https://player.vimeo.com/video/" \o Str(match[1]),
                         "-o", output_template,
                         "--referer", "https://www.patreon.com",
                         "--force-overwrite" >>)

(***************************************************************************)
(* Bounds of the model and the inputs it draws.                            *)
(***************************************************************************)
\* commands (video-info, video download) running at the same time
MaxTasks == 1

\* chunks a download_file worker receives
MaxChunks == 1

\* callbacks scheduled with after(0, ...) and not yet run
MaxAfter == 1

\* length of the texts parse_time is applied to
MaxLen == 5

Revisions == {"enum", "dataclass"}

Platforms == {"YT", "Vimeo"}

CrfValues == {IntToStr(i) : i \in 18..28}

UrlTexts ==
    { <<>>,
      <<"y", "t">>,
      <<"h", "t", "t", "p", ":", "/", "/", "y", "t">>,
      VimeoPrefix \o <<"4", "2">> }

\* the values the user picks in the CRF dropdown
CrfChoices == {"18", "23", "28"}

\* the texts the user types into the start and the end time entry
StartTexts == { <<>>, <<"5">>, <<"2", ":", "3", "9">>, <<"x">> }

EndTexts == { <<>>, <<"3">>, <<"1", ".", "9", "9">>, <<" ", "x">> }

\* askdirectory: "" when the dialog is cancelled
OutputDirs == {"", "C:/out"}

\* the heights of the formats yt-dlp -j reports (0: a format without height)
VideoInfos == { <<>>, <<0, 100>>, <<720, 1080, 144, 720>> }

\* what yt-dlp --version prints
Versions == {"2025.01", "2025.02"}

Files == {"yt-dlp.exe", "ffmpeg.zip"}

TimeAlphabet == {"1", "7", ":", ".", " ", "x"}

RECURSIVE TextsUpTo(_)
TextsUpTo(n) ==
    IF n = 0 THEN {<<>>}
    ELSE LET shorter == TextsUpTo(n - 1)
         IN  shorter \cup {Append(t, c) : t \in {u \in shorter : Len(u) = n - 1}, c \in TimeAlphabet}

(***************************************************************************)
(* State.                                                                  *)
(***************************************************************************)
VARIABLES
    rev,            \* which revision runs
    fs,             \* which files exist in the application folder
    started,        \* check_dependencies has run
    platform,       \* platform_cbx
    url_text,       \* url_entry's text
    url_state,      \* url_entry's state
    res_values,     \* resolution_combobox["values"]
    res_sel,        \* resolution_combobox's text
    start_time,     \* start_time_entry's text
    end_time,       \* end_time_entry's text
    crf,            \* crf_combobox's text
    authorize,      \* auth_switch_value
    button,         \* download_button's state
    tasks,          \* commands started by update_resolutions and download_video
    upd,            \* the yt-dlp update started by check_dependencies
    dl,             \* the download_file calls, by file
    download_queue, \* self.download_queue
    extract,        \* the extract_ffmpeg thread
    after0,         \* callbacks scheduled with after(0, ...)
    obs,            \* what the latest step did: dialogs, toolkit calls, poller runs, click,
                    \* launch, yt-dlp runs of the update
    pt              \* the latest parse_time call of the function-level specification

vars ==
    << rev, fs, started, platform, url_text, url_state, res_values, res_sel,
       start_time, end_time, crf, authorize, button, tasks, upd, dl,
       download_queue, extract, after0, obs, pt >>

form == <<platform, url_text, res_values, res_sel, start_time, end_time, crf, authorize>>

widgets == <<url_state, button>>

background == <<tasks, upd, dl, download_queue, extract, after0>>

FreeTask == [kind |-> "free", worker |-> "none", queue |-> <<>>, timer |-> 0]

NewTask(kind) == [kind |-> kind, worker |-> "running", queue |-> <<>>, timer |-> 0]

NoDownload == [worker |-> "none", timer |-> 0, chunks |-> 0]

NoObs ==
    [msgs |-> <<>>, uicalls |-> {}, polls |-> <<>>, click |-> <<>>, launched |-> <<>>,
     ran |-> <<>>]

NoCall == [called |-> FALSE, arg |-> <<>>, ret |-> <<>>]

\* a value on a queue
Item(kind, status, title, message, formats) ==
    [kind |-> kind, status |-> status, title |-> title, message |-> message, formats |-> formats]

Dialog(kind, title, message) == <<kind, title, message>>

\* the widgets as __init__ builds them, and nothing running
Constructed ==
    /\ platform = "YT"
    /\ url_text = <<>>
    /\ url_state = "normal"
    /\ res_values = <<>>
    /\ res_sel = ""
    /\ start_time = <<>>
    /\ end_time = <<>>
    /\ crf = "23"
    /\ authorize = FALSE
    /\ button = "disabled"
    /\ tasks = [i \in 1..MaxTasks |-> FreeTask]
    /\ upd = FreeTask
    /\ dl = [f \in Files |-> NoDownload]
    /\ download_queue = <<>>
    /\ extract = "none"
    /\ after0 = <<>>
    /\ obs = NoObs

Init ==
    /\ rev \in Revisions
    /\ fs \in [ytdlp : BOOLEAN, ffmpeg : BOOLEAN, zip : {FALSE}]
    /\ started = FALSE
    /\ Constructed
    /\ pt = NoCall

(***************************************************************************)
(* Pollers.  One run of a poller on its queue gives an effect: whether it  *)
(* took a value, what is left on the queue, whether it re-armed its 100 ms *)
(* timer, the dialogs it showed, the callbacks it scheduled with after(0), *)
(* and the widgets it wrote ("" or <<>>: not written).                     *)
(***************************************************************************)
NoEffect ==
    [ took |-> FALSE, rest |-> <<>>, rearm |-> 0, raised |-> FALSE,
      msgs |-> <<>>, later |-> <<>>, button |-> "", url_entry |-> "",
      values |-> <<>>, sel |-> <<>>, extract |-> FALSE ]

Range(seq) == {seq[i] : i \in 1..Len(seq)}

RECURSIVE SortSet(_)
SortSet(S) ==
    IF S = {} THEN <<>>
    ELSE LET m == CHOOSE x \in S : \A y \in S : x <= y
         IN  <<m>> \o SortSet(S \ {m})

StrList(seq) == [i \in 1..Len(seq) |-> IntToStr(seq[i])]

\* A variant of update_gui that keeps the heights above 144 only.
update_gui_above_144(formats) ==
    LET resolutions == {h \in Range(formats) : h # 0 /\ h > 144}
        res_list == StrList(SortSet(resolutions))
    IN  IF resolutions = {}
        THEN [NoEffect EXCEPT
                !.msgs = <<Dialog("error", "No resolution available",
                                  "Failed to retrieve video information.")>>,
                !.values = <<<<>>>>]
        ELSE [NoEffect EXCEPT
                !.values = <<res_list>>,
                !.sel = <<res_list[Len(res_list)]>>,
                !.button = "normal"]

\* update_resolutions.update_gui of the dataclass revision
update_gui(formats) ==
    LET resolutions == {h \in Range(formats) : h # 0 /\ h >= 144}
        res_list == StrList(SortSet(resolutions))
    IN  IF resolutions = {}
        THEN [NoEffect EXCEPT
                !.msgs = <<Dialog("error", "No resolution available",
                                  "Failed to retrieve video information.")>>,
                !.values = <<<<>>>>]
        ELSE [NoEffect EXCEPT
                !.values = <<res_list>>,
                !.sel = <<res_list[Len(res_list)]>>,
                !.button = "normal"]

\* update_resolutions.check_queue of the dataclass revision
info_check_queue(q) ==
    IF q = <<>> THEN [NoEffect EXCEPT !.rearm = 1]
    ELSE [update_gui(Head(q).formats) EXCEPT !.took = TRUE, !.rest = Tail(q)]

\* update_resolutions.check_queue_periodically of the enum revision; a value
\* that is no dict ('formats' in False) raises TypeError out of the callback
enum_info_check_queue(q) ==
    IF q = <<>> THEN [NoEffect EXCEPT !.rearm = 1]
    ELSE IF Head(q).kind # "info"
    THEN [NoEffect EXCEPT !.took = TRUE, !.rest = Tail(q), !.raised = TRUE]
    ELSE
    LET resolutions == {h \in Range(Head(q).formats) : h # 0 /\ h >= 144}
        res_list == StrList(SortSet(resolutions))
    IN  IF resolutions # {}
        THEN [NoEffect EXCEPT
                !.took = TRUE, !.rest = Tail(q),
                !.values = <<res_list>>,
                !.sel = <<res_list[Len(res_list)]>>,
                !.button = "normal"]
        ELSE [NoEffect EXCEPT
                !.took = TRUE, !.rest = Tail(q),
                !.msgs = <<Dialog("error", "No resolution available",
                                  "Failed to retrieve video information.")>>,
                !.values = <<<<>>>>]

\* _run_download_command.check_queue_periodically of the dataclass revision
video_check_queue(q) ==
    IF q = <<>> THEN [NoEffect EXCEPT !.rearm = 1, !.button = "normal"]
    ELSE [NoEffect EXCEPT
            !.took = TRUE, !.rest = Tail(q),
            !.later = IF Head(q).status
                      THEN <<Dialog("info", "Success", "Download successful!")>>
                      ELSE <<>>,
            !.button = "normal"]

\* check_dependencies.check_queue_periodically of the dataclass revision
update_check_queue(q) ==
    IF q = <<>> THEN [NoEffect EXCEPT !.rearm = 1, !.url_entry = "normal"]
    ELSE [NoEffect EXCEPT
            !.took = TRUE, !.rest = Tail(q),
            !.later = IF Head(q).message # ""
                      THEN <<Dialog("info", "Update completed",
                                    "yt-dlp has been updated.\nVersion: " \o Head(q).message)>>
                      ELSE <<>>,
            !.url_entry = "normal"]

\* MessageQueue.show_next: [empty |-> raised queue.Empty, rest, msgs]
show_next(q) ==
    IF q = <<>> THEN [empty |-> TRUE, rest |-> q, msgs |-> <<>>]
    ELSE LET m == Head(q)
         IN  [ empty |-> FALSE, rest |-> Tail(q),
               msgs |-> IF m.status
                        THEN IF m.title # "" /\ m.message # ""
                             THEN <<Dialog("info", m.title, m.message)>>
                             ELSE <<>>
                        ELSE <<Dialog("error", m.title, m.message)>> ]

\* download_video.check_queue_periodically of the enum revision
enum_video_check_queue(q) ==
    LET shown == show_next(q)
    IN  IF shown.empty THEN [NoEffect EXCEPT !.rearm = 1]
        ELSE [NoEffect EXCEPT
                !.took = TRUE, !.rest = shown.rest, !.msgs = shown.msgs,
                !.button = "normal"]

\* check_dependencies.check_queue_periodically of the enum revision
enum_update_check_queue(q) ==
    LET shown == show_next(q)
    IN  IF shown.empty THEN [NoEffect EXCEPT !.rearm = 1]
        ELSE [NoEffect EXCEPT
                !.took = TRUE, !.rest = shown.rest, !.msgs = shown.msgs,
                !.url_entry = "normal"]

\* download_file.check_queue_periodically of the dataclass revision
file_check_queue(q) ==
    IF q = <<>> THEN [NoEffect EXCEPT !.rearm = 1]
    ELSE LET result == Head(q)
         IN  IF result.status /\ result.message # ""
             THEN [NoEffect EXCEPT
                     !.took = TRUE, !.rest = Tail(q),
                     !.msgs = <<Dialog("info", "Success",
                                       "File downloaded: " \o result.message)>>,
                     !.extract = (result.title = "ffmpeg.zip"),
                     !.url_entry = IF result.title = "yt-dlp.exe" THEN "normal" ELSE ""]
             ELSE IF result.message # ""
             THEN [NoEffect EXCEPT
                     !.took = TRUE, !.rest = Tail(q),
                     !.msgs = <<Dialog("error", "Error",
                                       "Failed to download file: " \o result.message)>>]
             ELSE [NoEffect EXCEPT !.took = TRUE, !.rest = Tail(q)]

\* download_file.check_queue_periodically of the enum revision
enum_file_check_queue(q) ==
    IF q = <<>> THEN [NoEffect EXCEPT !.rearm = 1]
    ELSE LET result == Head(q)
         IN  IF result.status
             THEN [NoEffect EXCEPT
                     !.took = TRUE, !.rest = Tail(q),
                     !.msgs = <<Dialog("info", "Success",
                                       "File downloaded: " \o result.message)>>,
                     !.extract = (result.title = "ffmpeg.zip")]
             ELSE [NoEffect EXCEPT
                     !.took = TRUE, !.rest = Tail(q),
                     !.msgs = <<Dialog("error", "Error",
                                       "Failed to download file: " \o result.message)>>]

Poller(kind, q) ==
    CASE kind = "info" ->
            IF rev = "dataclass" THEN info_check_queue(q) ELSE enum_info_check_queue(q)
      [] kind = "video" ->
            IF rev = "dataclass" THEN video_check_queue(q) ELSE enum_video_check_queue(q)
      [] kind = "update" ->
            IF rev = "dataclass" THEN update_check_queue(q) ELSE enum_update_check_queue(q)
      [] kind = "file" ->
            IF rev = "dataclass" THEN file_check_queue(q) ELSE enum_file_check_queue(q)

\* the widgets an effect writes
Written(e) ==
    (IF e.button # "" THEN {"download_button"} ELSE {})
    \cup (IF e.url_entry # "" THEN {"url_entry"} ELSE {})
    \cup (IF e.values # <<>> \/ e.sel # <<>> THEN {"resolution_combobox"} ELSE {})

\* what is observed of a poller run; nth tells a run from the same run just
\* before it, so that a poller firing again and again is seen to fire
PollRec(id, e) ==
    LET run == [poller |-> id, took |-> e.took, rearmed |-> e.rearm,
                widgets |-> Written(e), nth |-> 0]
    IN  IF obs.polls = <<run>> THEN [run EXCEPT !.nth = 1] ELSE run

\* the toolkit calls of a poller run, made by the thread that runs it
PollCalls(e) ==
    {<<"main", w \o ".config">> : w \in Written(e)}
    \cup (IF e.rearm > 0 \/ e.later # <<>> THEN {<<"main", "self.after">>} ELSE {})
    \cup (IF e.msgs # <<>> THEN {<<"main", "messagebox">>} ELSE {})

Observe(msgs, uicalls, polls, launched) ==
    [msgs |-> msgs, uicalls |-> uicalls, polls |-> polls, click |-> <<>>,
     launched |-> launched, ran |-> <<>>]

\* a command leaves the model when nothing of it can run any more
Settle(task) ==
    IF task.worker = "done" /\ task.queue = <<>> /\ task.timer = 0
    THEN FreeTask
    ELSE task

(***************************************************************************)
(* The user's input.  The resolution, time, CRF and Authorize widgets are  *)
(* packed only while the platform is YT (on_platform_change); a disabled   *)
(* entry takes no input and a disabled button no click.  The user's first  *)
(* input comes after check_dependencies, which __init__ schedules 100 ms   *)
(* after the window is built.                                              *)
(***************************************************************************)
Main(calls) == {<<"main", c>> : c \in calls}

TypeUrl(text) ==
    /\ started
    /\ url_state = "normal"
    /\ url_text # text
    /\ url_text' = text
    /\ obs' = NoObs
    /\ UNCHANGED <<rev, fs, started, platform, res_values, res_sel, start_time,
                   end_time, crf, authorize, widgets, background, pt>>

EditStartTime(text) ==
    /\ started
    /\ platform = "YT"
    /\ start_time # text
    /\ start_time' = text
    /\ obs' = NoObs
    /\ UNCHANGED <<rev, fs, started, platform, url_text, res_values, res_sel,
                   end_time, crf, authorize, widgets, background, pt>>

EditEndTime(text) ==
    /\ started
    /\ platform = "YT"
    /\ end_time # text
    /\ end_time' = text
    /\ obs' = NoObs
    /\ UNCHANGED <<rev, fs, started, platform, url_text, res_values, res_sel,
                   start_time, crf, authorize, widgets, background, pt>>

\* the user picks a value of the CRF dropdown; on_crf_change clears the selection mark
on_crf_change(value) ==
    /\ started
    /\ platform = "YT"
    /\ crf # value
    /\ crf' = value
    /\ obs' = NoObs
    /\ UNCHANGED <<rev, fs, started, platform, url_text, res_values, res_sel,
                   start_time, end_time, authorize, widgets, background, pt>>

\* the user picks one of the listed resolutions
on_resolution_change(value) ==
    /\ started
    /\ platform = "YT"
    /\ value \in Range(res_values)
    /\ res_sel # value
    /\ res_sel' = value
    /\ obs' = NoObs
    /\ UNCHANGED <<rev, fs, started, platform, url_text, res_values,
                   start_time, end_time, crf, authorize, widgets, background, pt>>

ToggleAuthorize ==
    /\ started
    /\ platform = "YT"
    /\ authorize' = ~authorize
    /\ obs' = NoObs
    /\ UNCHANGED <<rev, fs, started, platform, url_text, res_values, res_sel,
                   start_time, end_time, crf, widgets, background, pt>>

on_platform_change(selected) ==
    /\ started
    /\ platform' = selected
    /\ IF selected = "Vimeo"
       THEN /\ url_text' = IF url_state = "normal" THEN <<>> ELSE url_text
            /\ res_values' = <<>>
            /\ res_sel' = ""
       ELSE UNCHANGED <<url_text, res_values, res_sel>>
    /\ button' = IF rev = "dataclass" THEN "disabled" ELSE button
    /\ obs' = Observe(<<>>,
                      Main({"platform_cbx.get"}
                           \cup (IF selected = "Vimeo"
                                 THEN {"url_entry.delete", "resolution_combobox.config"}
                                 ELSE {})
                           \cup (IF rev = "dataclass" THEN {"download_button.config"} ELSE {})),
                      <<>>, <<>>)
    /\ UNCHANGED <<rev, fs, started, start_time, end_time, crf, authorize,
                   url_state, background, pt>>

(***************************************************************************)
(* Commands started from a handler: a worker thread, a queue of its own    *)
(* and a poller, which the handler runs once before it returns.            *)
(***************************************************************************)
HasFree == \E i \in 1..MaxTasks : tasks[i].kind = "free"

FirstFree == CHOOSE i \in 1..MaxTasks :
                /\ tasks[i].kind = "free"
                /\ \A j \in 1..(i - 1) : tasks[j].kind # "free"

\* thread.start() and the poller's first run, on the command's empty queue
Started(kind) ==
    LET e == Poller(kind, <<>>)
    IN  [task |-> [NewTask(kind) EXCEPT !.timer = e.rearm], effect |-> e]

update_resolutions ==
    /\ started
    /\ url_state = "normal"
    /\ IF ~validate_url(url_text)
       THEN /\ button' = "disabled"
            /\ obs' = Observe(<<>>, Main({"url_entry.get", "platform_cbx.get",
                                          "download_button.config"}), <<>>, <<>>)
            /\ UNCHANGED tasks
       ELSE IF platform # "YT"
       THEN /\ button' = "normal"
            /\ obs' = Observe(<<>>, Main({"url_entry.get", "platform_cbx.get",
                                          "download_button.config"}), <<>>, <<>>)
            /\ UNCHANGED tasks
       ELSE IF rev = "dataclass" /\ ~fs.ytdlp
       THEN /\ button' = "disabled"
            /\ obs' = Observe(<<Dialog("error", "Error", "File 'yt-dlp.exe' not found!")>>,
                              Main({"url_entry.get", "platform_cbx.get",
                                    "download_button.config", "messagebox"}), <<>>, <<>>)
            /\ UNCHANGED tasks
       ELSE /\ HasFree
            /\ LET new == Started("info")
               IN  /\ tasks' = [tasks EXCEPT ![FirstFree] = new.task]
                   /\ button' = IF new.effect.button # "" THEN new.effect.button
                                ELSE "disabled"
                   /\ obs' = Observe(<<>>,
                                     Main({"url_entry.get", "platform_cbx.get",
                                           "download_button.config"})
                                     \cup PollCalls(new.effect),
                                     <<PollRec(<<"task", FirstFree>>, new.effect)>>, <<>>)
    /\ UNCHANGED <<rev, fs, started, form, url_state, upd, dl, download_queue,
                   extract, after0, pt>>

\* A variant of Self that takes the CRF the dropdown was built with.
Self_initial_crf ==
    [start |-> start_time, end |-> end_time, auth |-> authorize,
     resolution |-> res_sel, crf |-> "23"]

\* the widgets' values the builders read
Self ==
    [start |-> start_time, end |-> end_time, auth |-> authorize,
     resolution |-> res_sel, crf |-> crf]

Clicked(output_dir) ==
    [platform |-> platform, url |-> url_text, output_dir |-> output_dir,
     start |-> start_time, end |-> end_time, auth |-> authorize,
     resolution |-> res_sel, crf |-> crf]

\* download_video of the dataclass revision up to _run_download_command:
\* the dialogs shown and <<>> or <<the command>>
download_video(output_dir) ==
    IF url_text = <<>> \/ output_dir = ""
    THEN [msgs |-> <<Dialog("error", "Error",
                            "Please provide the video URL and select a folder!")>>,
          cmd |-> <<>>]
    ELSE IF ~fs.ytdlp \/ ~fs.ffmpeg
    THEN [msgs |-> (IF ~fs.ytdlp
                    THEN <<Dialog("error", "Error", "File 'yt-dlp.exe' not found!")>>
                    ELSE <<>>)
                   \o (IF ~fs.ffmpeg
                       THEN <<Dialog("error", "Error", "File 'ffmpeg.exe' not found!")>>
                       ELSE <<>>),
          cmd |-> <<>>]
    ELSE LET built ==
                 IF platform = "YT"
                 THEN build_youtube_command(Self, get_path("yt-dlp.exe"),
                          get_path("ffmpeg.exe"), OutputTemplate(output_dir), url_text)
                 ELSE build_vimeo_command(get_path("yt-dlp.exe"), url_text,
                          OutputTemplate(output_dir))
         IN  IF built.exc # ""
             THEN [msgs |-> <<Dialog("error", "Error", built.exc)>>, cmd |-> <<>>]
             ELSE [msgs |-> <<>>, cmd |-> <<built.val>>]

\* download_video of the enum revision up to the start of the worker
enum_download_video(output_dir) ==
    IF url_text = <<>> \/ output_dir = ""
    THEN [msgs |-> <<Dialog("error", "Error",
                "Please provide the video URL and select a destination folder!")>>,
          cmd |-> <<>>]
    ELSE IF ~fs.ytdlp
    THEN [msgs |-> <<Dialog("error", "Error",
                "File 'yt-dlp.exe' not found in the application folder!")>>,
          cmd |-> <<>>]
    ELSE IF ~fs.ffmpeg
    THEN [msgs |-> <<Dialog("error", "Error",
                "File 'ffmpeg.exe' not found in the application folder!")>>,
          cmd |-> <<>>]
    ELSE LET built ==
                 IF platform = "YT"
                 THEN enum_youtube_command(Self, get_path("yt-dlp.exe"),
                          get_path("ffmpeg.exe"), OutputTemplate(output_dir), url_text)
                 ELSE enum_vimeo_command(get_path("yt-dlp.exe"), url_text,
                          OutputTemplate(output_dir))
         IN  IF built.exc # ""
             THEN [msgs |-> <<Dialog("error", "Error", built.exc)>>, cmd |-> <<>>]
             ELSE [msgs |-> <<>>, cmd |-> <<built.val>>]

DownloadVideo(output_dir) ==
    /\ started
    /\ button = "normal"
    /\ \E r \in {IF rev = "dataclass" THEN download_video(output_dir)
                   ELSE enum_download_video(output_dir)} :
       LET reads == Main({"platform_cbx.get", "url_entry.get", "filedialog"})
           click == <<Clicked(output_dir)>>
       IN  IF r.cmd = <<>>
           THEN /\ obs' = [Observe(r.msgs, reads \cup Main({"messagebox"}), <<>>, <<>>)
                              EXCEPT !.click = click]
                /\ UNCHANGED <<tasks, button>>
           ELSE /\ HasFree
                /\ \E new \in {Started("video")} :
                       /\ tasks' = [tasks EXCEPT ![FirstFree] = new.task]
                       /\ button' = IF new.effect.button # "" THEN new.effect.button
                                    ELSE "disabled"
                       /\ obs' = [Observe(r.msgs,
                                      reads \cup Main({"download_button.config"})
                                            \cup PollCalls(new.effect),
                                      <<PollRec(<<"task", FirstFree>>, new.effect)>>,
                                      r.cmd)
                                    EXCEPT !.click = click]
    /\ UNCHANGED <<rev, fs, started, form, url_state, upd, dl, download_queue,
                   extract, after0, pt>>

\* the outcome of the subprocess: exit status zero, non-zero, or no process
\* at all (the executable is missing)
Outcomes == IF fs.ytdlp THEN {"ok", "fail"} ELSE {"crash"}

\* what run_command_in_thread / run_command puts on the queue of a command
Results(kind, outcome) ==
    IF outcome = "ok"
    THEN IF kind = "info"
         THEN {Item("info", TRUE, "", "", f) : f \in VideoInfos}
         ELSE IF rev = "dataclass"
              THEN {Item("bool", TRUE, "", "", <<>>)}
              ELSE {Item("tuple", TRUE, "Success", "Download successful!", <<>>)}
    ELSE IF outcome = "fail" /\ rev = "enum"
         THEN IF kind = "info"
              THEN {Item("bool", FALSE, "", "", <<>>)}
              ELSE {Item("tuple", FALSE, "Error", "Download failed.", <<>>)}
         ELSE {}

\* the except branch of run_command_in_thread, on the worker thread
FailureDialog ==
    Dialog("error", "Error",
           "Download failed."
           \o (IF platform = "YT" /\ ~authorize
               THEN "\nTry again with 'Authorize YT' checked."
               ELSE ""))

run_command_in_thread(i, outcome) ==
    /\ rev = "dataclass"
    /\ tasks[i].worker = "running"
    /\ outcome \in Outcomes
    /\ IF outcome = "ok"
       THEN /\ \E v \in Results(tasks[i].kind, outcome) :
                 tasks' = [tasks EXCEPT ![i] = [@ EXCEPT !.worker = "done",
                                                          !.queue = Append(@, v)]]
            /\ obs' = NoObs
            /\ UNCHANGED after0
       ELSE IF outcome = "fail"
       THEN /\ Len(after0) < MaxAfter
            /\ tasks' = [tasks EXCEPT ![i] = [@ EXCEPT !.worker = "done"]]
            /\ after0' = Append(after0, FailureDialog)
            /\ obs' = Observe(<<>>, {<<"worker", "platform_cbx.get">>,
                                     <<"worker", "auth_switch_value.get">>,
                                     <<"worker", "self.after">>}, <<>>, <<>>)
       ELSE /\ tasks' = [tasks EXCEPT ![i] = [@ EXCEPT !.worker = "done"]]
            /\ obs' = NoObs
            /\ UNCHANGED after0
    /\ UNCHANGED <<rev, fs, started, form, widgets, upd, dl, download_queue,
                   extract, pt>>

run_command(i, outcome) ==
    /\ rev = "enum"
    /\ tasks[i].worker = "running"
    /\ outcome \in Outcomes
    /\ IF outcome = "crash"
       THEN tasks' = [tasks EXCEPT ![i] = [@ EXCEPT !.worker = "done"]]
       ELSE \E v \in Results(tasks[i].kind, outcome) :
                 tasks' = [tasks EXCEPT ![i] = [@ EXCEPT !.worker = "done",
                                                          !.queue = Append(@, v)]]
    /\ obs' = NoObs
    /\ UNCHANGED <<rev, fs, started, form, widgets, upd, dl, download_queue,
                   extract, after0, pt>>

\* the 100 ms timer of a command's poller fires
TaskPoll(i) ==
    /\ tasks[i].timer = 1
    /\ LET e == Poller(tasks[i].kind, tasks[i].queue)
       IN  /\ Len(after0) + Len(e.later) <= MaxAfter
           /\ tasks' = [tasks EXCEPT ![i] =
                            Settle([@ EXCEPT !.queue = e.rest, !.timer = e.rearm])]
           /\ button' = IF e.button # "" THEN e.button ELSE button
           /\ res_values' = IF e.values # <<>> THEN e.values[1] ELSE res_values
           /\ res_sel' = IF e.sel # <<>> THEN e.sel[1] ELSE res_sel
           /\ after0' = after0 \o e.later
           /\ obs' = Observe(e.msgs, PollCalls(e), <<PollRec(<<"task", i>>, e)>>, <<>>)
    /\ UNCHANGED <<rev, fs, started, platform, url_text, start_time, end_time, crf,
                   authorize, url_state, upd, dl, download_queue, extract, pt>>

\* a callback scheduled with after(0, ...) runs
RunAfter0 ==
    /\ after0 # <<>>
    /\ after0' = Tail(after0)
    /\ obs' = IF Head(after0)[1] = "progress"
              THEN Observe(<<>>, Main({"progress.config"}), <<>>, <<>>)
              ELSE Observe(<<Head(after0)>>, Main({"messagebox"}), <<>>, <<>>)
    /\ UNCHANGED <<rev, fs, started, form, widgets, tasks, upd, dl, download_queue,
                   extract, pt>>

(***************************************************************************)
(* check_dependencies and the tasks it starts.                             *)
(***************************************************************************)
ErrorText == "connection lost"

DestPath(file) == PathJoin(ExeDir, file)

StartedDownload == [worker |-> "running", timer |-> Poller("file", <<>>).rearm, chunks |-> 0]

check_dependencies ==
    /\ ~started
    /\ started' = TRUE
    /\ LET update == Started("update")
           first == Poller("file", <<>>)
           url1 == IF ~fs.ytdlp THEN "disabled"
                   ELSE IF update.effect.url_entry # "" THEN update.effect.url_entry
                   ELSE "disabled"
           msgs1 == IF ~fs.ytdlp
                    THEN <<Dialog("info", "Installation", "Downloading yt-dlp.exe...")>>
                    ELSE <<>>
           polls1 == IF ~fs.ytdlp THEN <<PollRec(<<"file", "yt-dlp.exe">>, first)>>
                     ELSE <<PollRec(<<"update">>, update.effect)>>
           msgs2 == IF ~fs.ffmpeg
                    THEN (IF rev = "dataclass"
                          THEN <<Dialog("error", "Error", "File 'ffmpeg.exe' not found!")>>
                          ELSE <<>>)
                         \o <<Dialog("info", "Installation", "Downloading ffmpeg.exe...")>>
                    ELSE <<>>
           polls2 == IF ~fs.ffmpeg THEN <<PollRec(<<"file", "ffmpeg.zip">>, first)>>
                     ELSE <<>>
       IN  /\ upd' = IF fs.ytdlp THEN update.task ELSE upd
           /\ dl' = [f \in Files |->
                        IF (f = "yt-dlp.exe" /\ ~fs.ytdlp) \/ (f = "ffmpeg.zip" /\ ~fs.ffmpeg)
                        THEN StartedDownload
                        ELSE dl[f]]
           /\ url_state' = IF ~fs.ffmpeg THEN "disabled" ELSE url1
           /\ obs' = Observe(msgs1 \o msgs2,
                             Main({"url_entry.config", "self.after"}
                                  \cup (IF msgs1 \o msgs2 # <<>> THEN {"messagebox"} ELSE {})),
                             polls1 \o polls2, <<>>)
    /\ UNCHANGED <<rev, fs, form, button, tasks, download_queue, extract, after0, pt>>

\* the yt-dlp runs of an update, in order
UpdateRuns == <<"--version", "-U", "--version">>

\* A variant of UpdateYtDlpCommand_run that returns the version it finds.
UpdateYtDlpCommand_run_found(old_version, new_version) == new_version

\* what UpdateYtDlpCommand.run returns
UpdateYtDlpCommand_run(old_version, new_version) ==
    IF new_version # old_version THEN new_version ELSE ""

\* UpdateYtDlpCommand.run under run_command_in_thread; any of the three runs
\* may exit non-zero, which ends the command there
update_worker(ok, old_version, new_version) ==
    /\ rev = "dataclass"
    /\ upd.worker = "running"
    /\ IF ok
       THEN /\ upd' = [upd EXCEPT
                         !.worker = "done",
                         !.queue = Append(@, Item("str", TRUE, "",
                                     UpdateYtDlpCommand_run(old_version, new_version),
                                     <<>>))]
            /\ obs' = [NoObs EXCEPT !.ran = UpdateRuns]
            /\ UNCHANGED after0
       ELSE /\ Len(after0) < MaxAfter
            /\ upd' = [upd EXCEPT !.worker = "done"]
            /\ after0' = Append(after0, FailureDialog)
            /\ \E k \in 1..Len(UpdateRuns) :
                 obs' = [Observe(<<>>, {<<"worker", "platform_cbx.get">>,
                                        <<"worker", "auth_switch_value.get">>,
                                        <<"worker", "self.after">>}, <<>>, <<>>)
                           EXCEPT !.ran = SubSeq(UpdateRuns, 1, k)]
    /\ UNCHANGED <<rev, fs, started, form, widgets, tasks, dl, download_queue,
                   extract, pt>>

\* run_command(UPDATE_YTDP) of the enum revision; get_ytdlp_version gives
\* False when its own yt-dlp --version fails, and only a failing yt-dlp -U
\* ends the command
enum_update_worker(ok, old_version, new_version) ==
    /\ rev = "enum"
    /\ upd.worker = "running"
    /\ upd' = [upd EXCEPT
                 !.worker = "done",
                 !.queue = Append(@,
                     IF ~ok THEN Item("tuple", FALSE, "Error", "Download failed.", <<>>)
                     ELSE IF new_version # old_version
                     THEN Item("tuple", TRUE, "Update completed",
                               "yt-dlp has been updated.\nVersion: " \o new_version, <<>>)
                     ELSE Item("tuple", TRUE, "", "", <<>>))]
    /\ obs' = [NoObs EXCEPT !.ran = IF ok THEN UpdateRuns ELSE SubSeq(UpdateRuns, 1, 2)]
    /\ UNCHANGED <<rev, fs, started, form, widgets, tasks, dl, download_queue,
                   extract, after0, pt>>

\* the 100 ms timer of the update poller fires
UpdatePoll ==
    /\ upd.timer = 1
    /\ LET e == Poller("update", upd.queue)
       IN  /\ Len(after0) + Len(e.later) <= MaxAfter
           /\ upd' = Settle([upd EXCEPT !.queue = e.rest, !.timer = e.rearm])
           /\ url_state' = IF e.url_entry # "" THEN e.url_entry ELSE url_state
           /\ after0' = after0 \o e.later
           /\ obs' = Observe(e.msgs, PollCalls(e), <<PollRec(<<"update">>, e)>>, <<>>)
    /\ UNCHANGED <<rev, fs, started, form, button, tasks, dl, download_queue,
                   extract, pt>>

Exists(files, file) ==
    IF file = "yt-dlp.exe" THEN [files EXCEPT !.ytdlp = TRUE] ELSE [files EXCEPT !.zip = TRUE]

\* download_file.worker receives a chunk: the file is open, and with a known
\* Content-Length the worker schedules progress.config with self.after
download_chunk(file, sized) ==
    /\ dl[file].worker = "running"
    /\ dl[file].chunks < MaxChunks
    /\ dl' = [dl EXCEPT ![file].chunks = @ + 1]
    /\ fs' = Exists(fs, file)
    /\ IF sized
       THEN /\ Len(after0) < MaxAfter
            /\ after0' = Append(after0, <<"progress", file, "">>)
            /\ obs' = Observe(<<>>, {<<"worker", "self.after">>}, <<>>, <<>>)
       ELSE /\ obs' = NoObs
            /\ UNCHANGED after0
    /\ UNCHANGED <<rev, started, form, widgets, tasks, upd, download_queue,
                   extract, pt>>

\* download_file.worker ends and puts its result on self.download_queue
download_worker(file, ok) ==
    /\ dl[file].worker = "running"
    /\ dl' = [dl EXCEPT ![file].worker = "done"]
    /\ fs' = IF ok THEN Exists(fs, file) ELSE fs
    /\ download_queue' = Append(download_queue,
            IF ok THEN Item("file", TRUE, file, DestPath(file), <<>>)
            ELSE Item("file", FALSE, file,
                      IF rev = "dataclass" THEN "Network error: " \o ErrorText
                      ELSE ErrorText, <<>>))
    /\ obs' = NoObs
    /\ UNCHANGED <<rev, started, form, widgets, tasks, upd, extract, after0, pt>>

\* the 100 ms timer of a download_file poller fires
FilePoll(file) ==
    /\ dl[file].timer = 1
    /\ LET e == Poller("file", download_queue)
       IN  /\ dl' = [dl EXCEPT ![file].timer = e.rearm]
           /\ download_queue' = IF e.took THEN e.rest ELSE download_queue
           /\ url_state' = IF e.url_entry # "" THEN e.url_entry ELSE url_state
           /\ extract' = IF e.extract THEN "running" ELSE extract
           /\ obs' = Observe(e.msgs, PollCalls(e), <<PollRec(<<"file", file>>, e)>>, <<>>)
    /\ UNCHANGED <<rev, fs, started, form, button, tasks, upd, after0, pt>>

\* the extract_ffmpeg thread: the archive has a member ending in
\* bin/ffmpeg.exe, has none, or cannot be read
extract_ffmpeg(outcome) ==
    /\ extract = "running"
    /\ extract' = "done"
    /\ IF outcome = "error"
       THEN /\ obs' = Observe(<<Dialog("error", "Error",
                                       "Failed to extract ffmpeg: " \o ErrorText)>>,
                              {<<"worker", "messagebox">>}, <<>>, <<>>)
            /\ UNCHANGED <<fs, url_state>>
       ELSE /\ fs' = [fs EXCEPT !.zip = FALSE,
                                !.ffmpeg = IF outcome = "member" THEN TRUE ELSE @]
            /\ url_state' = "normal"
            /\ obs' = Observe(<<Dialog("info", "Done", "ffmpeg.exe has been extracted.")>>,
                              {<<"worker", "messagebox">>, <<"worker", "url_entry.config">>},
                              <<>>, <<>>)
    /\ UNCHANGED <<rev, started, form, button, tasks, upd, dl, download_queue,
                   after0, pt>>

(***************************************************************************)
(* The program: the main loop's handlers and timers, and the threads.      *)
(***************************************************************************)
Next ==
    \/ check_dependencies
    \/ \E text \in UrlTexts : TypeUrl(text)
    \/ update_resolutions
    \/ \E p \in Platforms : on_platform_change(p)
    \/ \E d \in OutputDirs : DownloadVideo(d)
    \/ \E i \in 1..MaxTasks, o \in {"ok", "fail", "crash"} : run_command_in_thread(i, o)
    \/ \E i \in 1..MaxTasks, o \in {"ok", "fail", "crash"} : run_command(i, o)
    \/ \E i \in 1..MaxTasks : TaskPoll(i)
    \/ \E ok \in BOOLEAN, old, new \in Versions : update_worker(ok, old, new)
    \/ \E ok \in BOOLEAN, old, new \in Versions \cup {"False"} : enum_update_worker(ok, old, new)
    \/ UpdatePoll
    \/ \E f \in Files, sized \in BOOLEAN : download_chunk(f, sized)
    \/ \E f \in Files, ok \in BOOLEAN : download_worker(f, ok)
    \/ \E f \in Files : FilePoll(f)
    \/ \E o \in {"member", "nomember", "error"} : extract_ffmpeg(o)
    \/ RunAfter0

Spec == Init /\ [][Next]_vars

(***************************************************************************)
(* The form: the program with both executables in place and start-up over, *)
(* the user filling in every widget before clicking Download.              *)
(***************************************************************************)
FormInit ==
    /\ rev \in Revisions
    /\ fs = [ytdlp |-> TRUE, ffmpeg |-> TRUE, zip |-> FALSE]
    /\ started = TRUE
    /\ Constructed
    /\ pt = NoCall

FormNext ==
    \/ \E text \in UrlTexts : TypeUrl(text)
    \/ update_resolutions
    \/ \E p \in Platforms : on_platform_change(p)
    \/ \E text \in StartTexts : EditStartTime(text)
    \/ \E text \in EndTexts : EditEndTime(text)
    \/ \E value \in CrfChoices : on_crf_change(value)
    \/ \E value \in Range(res_values) : on_resolution_change(value)
    \/ ToggleAuthorize
    \/ \E d \in OutputDirs : DownloadVideo(d)
    \/ \E i \in 1..MaxTasks, o \in {"ok", "fail"} : run_command_in_thread(i, o)
    \/ \E i \in 1..MaxTasks, o \in {"ok", "fail"} : run_command(i, o)
    \/ \E i \in 1..MaxTasks : TaskPoll(i)
    \/ RunAfter0

FormSpec == FormInit /\ [][FormNext]_vars

(***************************************************************************)
(* parse_time alone, applied to every text of up to MaxLen characters.     *)
(***************************************************************************)
ParseInit ==
    /\ rev = "dataclass"
    /\ fs = [ytdlp |-> TRUE, ffmpeg |-> TRUE, zip |-> FALSE]
    /\ started = FALSE
    /\ Constructed
    /\ pt \in [called : {FALSE}, arg : TextsUpTo(MaxLen), ret : {<<>>}]

ParseTime ==
    /\ ~pt.called
    /\ pt' = [pt EXCEPT !.called = TRUE, !.ret = parse_time(pt.arg)]
    /\ UNCHANGED <<rev, fs, started, form, widgets, background, obs>>

ParseNext == ParseTime

ParseSpec == ParseInit /\ [][ParseNext]_vars

(***************************************************************************)
(* The dataclass revision under the scheduling the program runs with: the  *)
(* main loop runs every timer that is due and every thread gets to finish. *)
(***************************************************************************)
FairInit ==
    /\ rev = "dataclass"
    /\ fs = [ytdlp |-> TRUE, ffmpeg |-> TRUE, zip |-> FALSE]
    /\ started = FALSE
    /\ Constructed
    /\ pt = NoCall

Worker(i) == \E o \in {"ok", "fail"} : run_command_in_thread(i, o)

Updater == \E ok \in BOOLEAN, old, new \in Versions : update_worker(ok, old, new)

FairNext ==
    \/ check_dependencies
    \/ \E text \in UrlTexts : TypeUrl(text)
    \/ update_resolutions
    \/ \E p \in Platforms : on_platform_change(p)
    \/ \E d \in OutputDirs : DownloadVideo(d)
    \/ \E i \in 1..MaxTasks : Worker(i)
    \/ \E i \in 1..MaxTasks : TaskPoll(i)
    \/ Updater
    \/ UpdatePoll
    \/ RunAfter0

FairSpec ==
    /\ FairInit
    /\ [][FairNext]_vars
    /\ \A i \in 1..MaxTasks : WF_vars(Worker(i)) /\ WF_vars(TaskPoll(i))
    /\ WF_vars(Updater)
    /\ WF_vars(UpdatePoll)
    /\ WF_vars(RunAfter0)

(***************************************************************************)
(* Start-up of the enum revision with every dependency task succeeding:    *)
(* the update, the downloads and the extraction, from each combination of  *)
(* yt-dlp.exe and ffmpeg.exe present or missing.                           *)
(***************************************************************************)
StartUpInit ==
    /\ rev = "enum"
    /\ fs \in [ytdlp : BOOLEAN, ffmpeg : BOOLEAN, zip : {FALSE}]
    /\ started = FALSE
    /\ Constructed
    /\ pt = NoCall

Updated == \E old, new \in Versions : enum_update_worker(TRUE, old, new)

Downloaded(f) == download_worker(f, TRUE)

Extracted == \E o \in {"member", "nomember"} : extract_ffmpeg(o)

StartUpNext ==
    \/ check_dependencies
    \/ \E p \in Platforms : on_platform_change(p)
    \/ Updated
    \/ UpdatePoll
    \/ \E f \in Files, sized \in BOOLEAN : download_chunk(f, sized)
    \/ \E f \in Files : Downloaded(f)
    \/ \E f \in Files : FilePoll(f)
    \/ Extracted
    \/ RunAfter0

StartUpSpec ==
    /\ StartUpInit
    /\ [][StartUpNext]_vars
    /\ WF_vars(check_dependencies)
    /\ WF_vars(Updated)
    /\ WF_vars(UpdatePoll)
    /\ \A f \in Files : WF_vars(Downloaded(f)) /\ WF_vars(FilePoll(f))
    /\ WF_vars(Extracted)
    /\ WF_vars(RunAfter0)

(***************************************************************************)
(* The dependencies: start-up in both revisions with every outcome of the  *)
(* update and of the two downloads, the user only changing the platform    *)
(* and the Authorize switch.                                               *)
(***************************************************************************)
DependencyNext ==
    \/ check_dependencies
    \/ \E p \in Platforms : on_platform_change(p)
    \/ ToggleAuthorize
    \/ \E ok \in BOOLEAN, old, new \in Versions : update_worker(ok, old, new)
    \/ \E ok \in BOOLEAN, old, new \in Versions \cup {"False"} : enum_update_worker(ok, old, new)
    \/ UpdatePoll
    \/ \E f \in Files, sized \in BOOLEAN : download_chunk(f, sized)
    \/ \E f \in Files, ok \in BOOLEAN : download_worker(f, ok)
    \/ \E f \in Files : FilePoll(f)
    \/ \E o \in {"member", "nomember", "error"} : extract_ffmpeg(o)
    \/ RunAfter0

DependencySpec == Init /\ [][DependencyNext]_vars

(***************************************************************************)
(* Properties.                                                             *)
(***************************************************************************)
AllFree == \A i \in 1..MaxTasks : tasks[i].kind = "free"

\* C1: every widget read or write, every self.after call and every dialog
\* is made by the main-loop thread; a worker thread only puts a value on a
\* queue.
UiCallsOnMainThread == \A c \in obs.uicalls : c[1] = "main"

\* C2: a poller run that finds its queue empty re-arms its timer once and
\* writes no widget; a run that takes a value does not re-arm.
PollerProtocol ==
    \A k \in 1..Len(obs.polls) :
        /\ ~obs.polls[k].took => obs.polls[k].rearmed = 1 /\ obs.polls[k].widgets = {}
        /\ obs.polls[k].took => obs.polls[k].rearmed = 0

\* C3: in the dataclass revision, once the worker of a command has
\* finished, the command's poller eventually has no timer pending.
PollerStopsAfterWorker ==
    /\ \A i \in 1..MaxTasks : (tasks[i].worker = "done") ~> (tasks[i].timer = 0)
    /\ (upd.worker = "done") ~> (upd.timer = 0)

CrfTokens == {"-c:v libx264 -crf " \o v : v \in CrfValues}

\* where --postprocessor-args stands in a command
CrfFlagAt(cmd) == {k \in 1..Len(cmd) : cmd[k] = "--postprocessor-args"}

CrfInCommand ==
    obs.launched # <<>> =>
        IF obs.click[1].platform = "YT"
        THEN \E k \in 1..(Len(obs.launched[1]) - 1) :
                /\ CrfFlagAt(obs.launched[1]) = {k}
                /\ obs.launched[1][k + 1] = "-c:v libx264 -crf " \o obs.click[1].crf
        ELSE /\ CrfFlagAt(obs.launched[1]) = {}
             /\ Range(obs.launched[1]) \cap CrfTokens = {}

\* C4: in both revisions the argument after --postprocessor-args of a YT
\* download is "-c:v libx264 -crf V", V the dropdown's value at the click;
\* V is one of 18..28, 23 at first, only the user's selection in the
\* dropdown changes it, and a Vimeo command has no CRF argument.
CrfPassedThrough ==
    /\ crf = "23"
    /\ [](crf \in CrfValues)
    /\ [](obs.click # <<>> => obs.click[1].crf = crf)
    /\ []CrfInCommand
    /\ [][crf' # crf => \E v \in CrfValues : on_crf_change(v)]_vars

CrfChangedAndPassed ==
    /\ rev = "enum"
    /\ obs.launched # <<>>
    /\ obs.click[1].platform = "YT"
    /\ obs.click[1].crf = "28"

IsNumber(s) == s # <<>> /\ AllDigits(s)

Cuts(s, seps) == {k \in 1..Len(s) : s[k] \in seps}

\* the ways to cut s at characters of seps into one, two or three numbers
Fields(s, seps) ==
    LET one == {<<s>>}
        two == {<<SubSeq(s, 1, i - 1), SubSeq(s, i + 1, Len(s))>> : i \in Cuts(s, seps)}
        three == {<<SubSeq(s, 1, p[1] - 1), SubSeq(s, p[1] + 1, p[2] - 1),
                    SubSeq(s, p[2] + 1, Len(s))>> :
                      p \in {q \in Cuts(s, seps) \X Cuts(s, seps) : q[1] < q[2]}}
    IN  {f \in one \cup two \cup three : \A k \in 1..Len(f) : IsNumber(f[k])}

\* hours, minutes and seconds, or seconds alone
InSeconds(f) ==
    IF Len(f) = 1 THEN ToInt(f[1])
    ELSE ToInt(f[1]) * 3600 + ToInt(f[2]) * 60 + (IF Len(f) = 3 THEN ToInt(f[3]) ELSE 0)

\* a number, then up to two fields of one or two digits, each after ':' or '.'
Decoded(t) ==
    {InSeconds(f) : f \in {g \in Fields(Strip(t), {":", "."}) :
                              \A k \in 2..Len(g) : Len(g[k]) <= 2}}

\* "H:M:S", "H:M" or a bare number
DecodedByColons(t) == {InSeconds(f) : f \in Fields(Strip(t), {":"})}

\* C5 as stated: parse_time gives H*3600 + M*60 + S for "H:M:S",
\* H*3600 + M*60 for "H:M", N for a bare number N and None for every other
\* text, whitespace around the text aside.
ParseTimeColonsOnly ==
    pt.called =>
        IF DecodedByColons(pt.arg) = {} THEN pt.ret = <<>>
        ELSE pt.ret # <<>> /\ DecodedByColons(pt.arg) = {pt.ret[1]}

\* C5: parse_time gives the seconds of a number followed by up to two
\* fields of one or two digits, each after ':' or '.', and None for every
\* other text, whitespace around the text aside.
ParseTimeDecodes ==
    pt.called =>
        IF Decoded(pt.arg) = {} THEN pt.ret = <<>>
        ELSE pt.ret # <<>> /\ Decoded(pt.arg) = {pt.ret[1]}

ParsedHoursMinutesSeconds ==
    /\ pt.called
    /\ pt.arg = <<"1", ":", "7", ".", "1">>
    /\ pt.ret = <<3600 + 7 * 60 + 1>>

\* what the enum revision's download_video builds from the values of a click
EnumBuilt(c) ==
    IF c.platform = "YT"
    THEN enum_youtube_command(
             [start |-> c.start, end |-> c.end, auth |-> c.auth,
              resolution |-> c.resolution, crf |-> c.crf],
             get_path("yt-dlp.exe"), get_path("ffmpeg.exe"),
             OutputTemplate(c.output_dir), c.url)
    ELSE enum_vimeo_command(get_path("yt-dlp.exe"), c.url, OutputTemplate(c.output_dir))

\* C6: whenever the dataclass revision starts a download, its argument list
\* is, token for token, the one the enum revision builds from the same
\* platform, URL, folder, resolution, CRF, times and Authorize flag.
BuildersAgree ==
    rev = "dataclass" /\ obs.launched # <<>> =>
        /\ EnumBuilt(obs.click[1]).exc = ""
        /\ obs.launched[1] = EnumBuilt(obs.click[1]).val

BothBuiltSections ==
    /\ rev = "dataclass"
    /\ obs.launched # <<>>
    /\ obs.click[1].platform = "YT"
    /\ obs.click[1].start # <<>>
    /\ obs.click[1].end # <<>>
    /\ obs.click[1].auth

YoutubeShape(c) ==
    << ExeDir \o "\\yt-dlp.exe", "-f",
       "bestvideo[height=" \o c.resolution \o "]+bestaudio/best",
       "--merge-output-format", "mp4",
       "--ffmpeg-location", ExeDir \o "\\ffmpeg.exe",
       "-o", c.output_dir \o "\\%(title)s.%(ext)s", Str(c.url),
       "--postprocessor-args", "-c:v libx264 -crf " \o c.crf,
       "--force-overwrite" >>
    \o (IF c.start = <<>> /\ c.end = <<>> THEN <<>>
        ELSE <<"--download-sections", "*" \o Str(c.start) \o "-" \o Str(c.end),
               "--force-keyframes-at-cuts">>)
    \o (IF c.auth THEN <<"--cookies-from-browser", "firefox">> ELSE <<>>)

\* C7: a YT download command of the dataclass revision is the thirteen
\* fixed tokens with the resolution, URL text and CRF of the click, then
\* the download-sections tokens when a time is given, then
\* --cookies-from-browser firefox exactly when Authorize YT was checked.
YoutubeCommandShape ==
    /\ obs.click # <<>> =>
          /\ obs.click[1].url = url_text
          /\ obs.click[1].resolution = res_sel
          /\ obs.click[1].auth = authorize
    /\ rev = "dataclass" /\ obs.launched # <<>> /\ obs.click[1].platform = "YT" =>
          obs.launched[1] = YoutubeShape(obs.click[1])

PickedResolutionBuilt ==
    /\ rev = "dataclass"
    /\ obs.launched # <<>>
    /\ obs.click[1].platform = "YT"
    /\ obs.click[1].resolution = "144"
    /\ obs.click[1].start = <<>>
    /\ obs.click[1].end # <<>>
    /\ ~obs.click[1].auth

\* C8: in the dataclass revision the download button goes from disabled to
\* enabled only while the URL entry holds a text validate_url accepts and,
\* with YT selected, the resolution list is not empty.
ButtonEnabledOnlyWhenReady ==
    /\ button = "disabled"
    /\ [][rev = "dataclass" /\ button = "disabled" /\ button' = "normal"
            => /\ validate_url(url_text')
               /\ platform' = "YT" => res_values' # <<>>]_vars

DependencyBusy ==
    \/ upd.worker = "running"
    \/ upd.queue # <<>>
    \/ \E f \in Files : dl[f].worker = "running"
    \/ extract = "running"

\* C9: in both revisions the URL entry is disabled while the yt-dlp update
\* has not delivered its result, while yt-dlp.exe or ffmpeg.zip is being
\* downloaded and while ffmpeg is being extracted.
UrlEntryDisabledWhileBusy == DependencyBusy => url_state = "disabled"

InvalidTimeDialog ==
    Dialog("error", "Error", "Invalid time format. Use seconds, HH:MM or HH:MM:SS")

\* seconds, H:M or H:M:S cut at colons, minutes and seconds up to 59
ColonTime(t) ==
    \E f \in Fields(Strip(t), {":"}) : \A k \in 2..Len(f) : ToInt(f[k]) <= 59

\* the click reaches the builder of the YT command with a time it refuses
RefusedClick(output_dir) ==
    /\ rev = "dataclass"
    /\ DownloadVideo(output_dir)
    /\ platform = "YT"
    /\ url_text # <<>>
    /\ output_dir # ""
    /\ fs.ytdlp /\ fs.ffmpeg
    /\ \E t \in {start_time, end_time} : t # <<>> /\ Decoded(t) = {}

\* C10 as stated: the dataclass revision starts a YT download only with
\* times that are seconds, HH:MM or HH:MM:SS, cut at colons, minutes and
\* seconds in 0..59.
OnlyColonTimesAccepted ==
    rev = "dataclass" /\ obs.launched # <<>> /\ obs.click[1].platform = "YT" =>
        \A t \in {obs.click[1].start, obs.click[1].end} : t # <<>> => ColonTime(t)

\* C10: the dataclass revision starts a YT download only with times that
\* are a number followed by up to two fields of one or two digits, each
\* after ':' or '.'; with any other non-empty time the click shows the
\* "Invalid time format" error dialog, starts no worker and leaves the
\* download button as it was.
InvalidTimeRefused ==
    /\ [](rev = "dataclass" /\ obs.launched # <<>> /\ obs.click[1].platform = "YT" =>
            \A t \in {obs.click[1].start, obs.click[1].end} : t # <<>> => Decoded(t) # {})
    /\ [][\A d \in OutputDirs :
            RefusedClick(d) =>
                /\ obs'.msgs = <<InvalidTimeDialog>>
                /\ obs'.launched = <<>>
                /\ tasks' = tasks
                /\ button' = button]_vars

InvalidTimeShown ==
    /\ rev = "dataclass"
    /\ obs.click # <<>>
    /\ obs.click[1].end = <<" ", "x">>
    /\ obs.msgs = <<InvalidTimeDialog>>
    /\ obs.launched = <<>>
    /\ AllFree
    /\ button = "normal"

EndBeforeStartDialog ==
    Dialog("error", "Error", "End time cannot be earlier than start time")

\* a click of the dataclass revision that gets as far as the YT builder
ReachedYoutubeBuilder ==
    /\ rev = "dataclass"
    /\ obs.click # <<>>
    /\ obs.click[1].platform = "YT"
    /\ obs.click[1].url # <<>>
    /\ obs.click[1].output_dir # ""
    /\ fs.ytdlp /\ fs.ffmpeg

\* both times are given, both are times, and the end compares so to the start
EndVersusStart(c, earlier) ==
    /\ c.start # <<>> /\ c.end # <<>>
    /\ \E s \in Decoded(c.start), e \in Decoded(c.end) :
          IF earlier THEN e < s ELSE e <= s

\* C11 as stated: a YT download of the dataclass revision is refused with
\* "End time cannot be earlier than start time" exactly when both times are
\* given, both parse and the end is strictly earlier than the start.
RefusedOnlyWhenEndEarlier ==
    ReachedYoutubeBuilder =>
        (obs.msgs = <<EndBeforeStartDialog>> <=> EndVersusStart(obs.click[1], TRUE))

\* C11: a YT download of the dataclass revision is refused with "End time
\* cannot be earlier than start time" exactly when both times are given,
\* both parse and the end, in seconds, is not later than the start; the
\* refused click starts no worker.
EndNotAfterStartRefused ==
    /\ [](ReachedYoutubeBuilder =>
            /\ obs.msgs = <<EndBeforeStartDialog>> <=> EndVersusStart(obs.click[1], FALSE)
            /\ obs.msgs = <<EndBeforeStartDialog>> => obs.launched = <<>>)
    /\ [][\A d \in OutputDirs :
            DownloadVideo(d) /\ obs'.msgs = <<EndBeforeStartDialog>> => tasks' = tasks]_vars

EqualTimesRefused ==
    /\ ReachedYoutubeBuilder
    /\ obs.click[1].start = <<"2", ":", "3", "9">>
    /\ obs.click[1].end = <<"1", ".", "9", "9">>
    /\ obs.msgs = <<EndBeforeStartDialog>>
    /\ obs.launched = <<>>
    /\ AllFree

\* the cut-point arguments of a command: --download-sections with its value,
\* and --force-keyframes-at-cuts
RECURSIVE CutPointArgs(_)
CutPointArgs(cmd) ==
    IF cmd = <<>> THEN <<>>
    ELSE IF Head(cmd) = "--download-sections" /\ Len(cmd) >= 2
    THEN <<cmd[1], cmd[2]>> \o CutPointArgs(SubSeq(cmd, 3, Len(cmd)))
    ELSE IF Head(cmd) \in {"--download-sections", "--force-keyframes-at-cuts"}
    THEN <<Head(cmd)>> \o CutPointArgs(Tail(cmd))
    ELSE CutPointArgs(Tail(cmd))

\* the three tokens for the texts of the time entries, or nothing
SectionTokens(start, end) ==
    IF start = <<>> /\ end = <<>> THEN <<>>
    ELSE << "--download-sections",
            IF start # <<>> /\ end # <<>> THEN "*" \o Str(start) \o "-" \o Str(end)
            ELSE IF start # <<>> THEN "*" \o Str(start) \o "-"
            ELSE "*-" \o Str(end),
            "--force-keyframes-at-cuts" >>

\* C12 as stated: the cut-point arguments of every download command are
\* nothing when both time entries are empty and otherwise the three tokens
\* made of the entries' texts.
CutPointsFollowEntries ==
    obs.launched # <<>> =>
        CutPointArgs(obs.launched[1]) = SectionTokens(start_time, end_time)

\* C12: in both revisions the cut-point arguments of a YT download command
\* are nothing when both time entries are empty and otherwise
\* --download-sections, "*start-end" / "*start-" / "*-end" of the entries'
\* texts as typed, --force-keyframes-at-cuts; a Vimeo command has none,
\* whatever the time entries hold; --force-keyframes-at-cuts is in a command
\* exactly when --download-sections is.
CutPointsOfYoutubeFollowEntries ==
    obs.launched # <<>> =>
        /\ obs.click[1].start = start_time /\ obs.click[1].end = end_time
        /\ CutPointArgs(obs.launched[1]) =
              IF obs.click[1].platform = "YT"
              THEN SectionTokens(start_time, end_time)
              ELSE <<>>
        /\ "--force-keyframes-at-cuts" \in Range(obs.launched[1])
              <=> "--download-sections" \in Range(obs.launched[1])

StartOnlyCut ==
    /\ rev = "enum"
    /\ obs.launched # <<>>
    /\ obs.click[1].platform = "YT"
    /\ start_time = <<"x">>
    /\ end_time = <<>>
    /\ CutPointArgs(obs.launched[1]) =
          <<"--download-sections", "*x-", "--force-keyframes-at-cuts">>

\* a download command whose result the poller has not taken yet
DownloadPending(i) ==
    /\ tasks[i].kind = "video"
    /\ tasks[i].worker = "running" \/ tasks[i].queue # <<>>

\* C13: in the dataclass revision the download button stays disabled from
\* the start of the download worker until the poller takes the worker's
\* result, and only the poller run that takes it enables the button.
ButtonDisabledWhileDownloading ==
    rev = "dataclass" =>
        \A i \in 1..MaxTasks : DownloadPending(i) => button = "disabled"

\* check_dependencies has run and nothing it started is still to run
DependenciesOver ==
    /\ started
    /\ upd = FreeTask
    /\ \A f \in Files : dl[f].worker # "running" /\ dl[f].timer = 0
    /\ download_queue = <<>>
    /\ extract # "running"
    /\ after0 = <<>>

\* C14: in the enum revision, from every combination of yt-dlp.exe and
\* ffmpeg.exe present or missing, once every dependency task has finished
\* successfully the URL entry is enabled.
UrlEntryEnabledWhenDependenciesOver ==
    rev = "enum" /\ DependenciesOver => url_state = "normal"

ExtractedDialog == Dialog("info", "Done", "ffmpeg.exe has been extracted.")

\* C15: in both revisions, whenever "ffmpeg.exe has been extracted." is
\* shown, ffmpeg.exe is in the application folder and ffmpeg.zip is gone,
\* whatever the archive holds.
ExtractedMeansFfmpegInPlace ==
    ExtractedDialog \in Range(obs.msgs) => fs.ffmpeg /\ ~fs.zip

UpdateDialog(version) ==
    Dialog("info", "Update completed", "yt-dlp has been updated.\nVersion: " \o version)

\* the dialogs the update poller shows, at once or with after(0), on taking
\* the head of q
Announced(q) == Poller("update", q).msgs \o Poller("update", q).later

\* the dialogs a step shows or schedules with after(0)
NewDialogs == obs'.msgs \o SubSeq(after0', Len(after0) + 1, Len(after0'))

IsUpdateDialog(m) == Len(m) = 3 /\ m[2] = "Update completed"

\* C16: check_dependencies starts the update exactly when yt-dlp.exe is
\* present; an update whose three yt-dlp runs exit with zero has run
\* yt-dlp --version, yt-dlp -U, yt-dlp --version in this order, and its result
\* makes the update poller show "Update completed / yt-dlp has been updated.
\* Version: <new>" exactly when the version found after differs from the
\* version found before, and nothing when the two are equal; the dialog is
\* shown by no other step.
UpdateDialogIffVersionChanged ==
    /\ [][check_dependencies => (upd'.worker = "running" <=> fs.ytdlp)]_vars
    /\ [][\A old, new \in Versions :
            update_worker(TRUE, old, new) \/ enum_update_worker(TRUE, old, new)
            => /\ obs'.ran = <<"--version", "-U", "--version">>
               /\ Announced(upd'.queue)
                    = IF new # old THEN <<UpdateDialog(new)>> ELSE <<>>]_vars
    /\ [][UpdatePoll /\ upd.queue # <<>> => NewDialogs = Announced(upd.queue)]_vars
    /\ [][RunAfter0 /\ IsUpdateDialog(Head(after0)) => obs'.msgs = <<Head(after0)>>]_vars
    /\ [][(\E k \in 1..Len(NewDialogs) : IsUpdateDialog(NewDialogs[k]))
            => \/ UpdatePoll /\ upd.queue # <<>>
               \/ RunAfter0 /\ IsUpdateDialog(Head(after0))]_vars

\* the dataclass revision shows the dialog of an update to 2025.02
UpdateDialogShown ==
    /\ rev = "dataclass"
    /\ upd.queue = <<>>
    /\ obs.msgs = <<UpdateDialog("2025.02")>>

DownloadFailedDialog == Dialog("error", "Error", "Download failed.")

\* the result at the head of q is that of a yt-dlp process that exited with
\* a status other than zero
FailedResult(q) == q # <<>> /\ ~Head(q).status

\* C17: in the enum revision, the poller run that takes the result of a
\* yt-dlp process that exited with a status other than zero shows the dialog
\* "Error / Download failed." and enables the widget disabled for the
\* operation: the download button for a download and for a video-info
\* request, the URL entry for the update.
FailedProcessReported ==
    [][rev = "enum"
       => /\ \A i \in 1..MaxTasks :
               TaskPoll(i) /\ FailedResult(tasks[i].queue)
               => obs'.msgs = <<DownloadFailedDialog>> /\ button' = "normal"
          /\ UpdatePoll /\ FailedResult(upd.queue)
               => obs'.msgs = <<DownloadFailedDialog>> /\ url_state' = "normal"]_vars

NoResolutionDialog ==
    Dialog("error", "No resolution available", "Failed to retrieve video information.")

\* the heights of a video-info result that are at least 144; 0 stands for a
\* format without a height
Heights(info) == {h \in Range(info.formats) : h >= 144}

\* list holds exactly the heights of hs, as strings, each once and ascending
AscendingTexts(list, hs) ==
    /\ Len(list) = Cardinality(hs)
    /\ \E f \in [1..Len(list) -> hs] :
         /\ \A j, k \in 1..Len(list) : j < k => f[j] < f[k]
         /\ \A k \in 1..Len(list) : list[k] = IntToStr(f[k])

\* the poller of task i takes a video-info result
InfoArrives(i) ==
    /\ TaskPoll(i)
    /\ tasks[i].kind = "info"
    /\ tasks[i].queue # <<>>
    /\ Head(tasks[i].queue).kind = "info"

\* what taking the result at the head of task i's queue does to the form;
\* left is the state of the download button after a result without heights
InfoApplied(i, left) ==
    \E hs \in {Heights(Head(tasks[i].queue))} :
       IF hs # {}
       THEN /\ AscendingTexts(res_values', hs)
            /\ res_sel' = IntToStr(CHOOSE h \in hs : \A g \in hs : g <= h)
            /\ button' = "normal"
            /\ obs'.msgs = <<>>
       ELSE /\ obs'.msgs = <<NoResolutionDialog>>
            /\ res_values' = <<>>
            /\ button' = left

\* C18 as stated: after a result without heights of at least 144 the
\* download button is disabled.
ResolutionsFollowInfoButtonDisabled ==
    [][\A i \in 1..MaxTasks : InfoArrives(i) => InfoApplied(i, "disabled")]_vars

\* C18: in both revisions, the poller run that takes a video-info result sets
\* the resolution list to exactly the distinct format heights of at least 144,
\* as strings in ascending numeric order, selects the largest of them and
\* enables the download button; when the result has no such height it shows
\* "No resolution available / Failed to retrieve video information.", empties
\* the list and leaves the download button as it was.
ResolutionsFollowInfo ==
    [][\A i \in 1..MaxTasks : InfoArrives(i) => InfoApplied(i, button)]_vars

\* the enum revision has listed 144, 720 and 1080 and selected 1080
ResolutionsListed ==
    /\ rev = "enum"
    /\ obs.polls # <<>>
    /\ obs.polls[1].took
    /\ res_values = <<"144", "720", "1080">>
    /\ res_sel = "1080"
    /\ button = "normal"


=============================================================================
